---------------------------- MODULE Spec2Model ----------------------------
(***************************************************************************)
(* A model of the LTI 1.0 launch signing (tool_consumer.py) and            *)
(* verification (tool_provider.py) of KMI-KPZ/LTIWrapper.                  *)
(*                                                                         *)
(* Text is modelled character by character: a string is a sequence of      *)
(* Unicode code points (naturals), so that form encoding, percent          *)
(* escaping, decoding and sorting are computed the way urllib, requests    *)
(* and oauthlib compute them and are never the identity.                   *)
(*                                                                         *)
(* HMAC-SHA1 is modelled as an injective function of (key, text): the      *)
(* variable hmac_table is the graph of that function on the points where   *)
(* it has been evaluated, and the digest of a point is its index in the    *)
(* table (a collision-free hash).                                          *)
(***************************************************************************)
EXTENDS Integers, Sequences, FiniteSets, TLC

(***************************************************************************)
(* Strings.                                                                *)
(***************************************************************************)
\* The printable ASCII characters in order: code points 32 .. 95 and
\* 97 .. 126 (the grave accent, 96, cannot be written in a TLA+ string).
Ascii ==
  <<" ","!","\"","#","$","%","&","'","(",")","*","+",",","-",".","/",
    "0","1","2","3","4","5","6","7","8","9",":",";","<","=",">","?","@",
    "A","B","C","D","E","F","G","H","I","J","K","L","M","N","O","P","Q",
    "R","S","T","U","V","W","X","Y","Z","[","\\","]","^","_",
    "a","b","c","d","e","f","g","h","i","j","k","l","m","n","o","p","q",
    "r","s","t","u","v","w","x","y","z","{","|","}","~">>

\* The code point of a printable ASCII character.
Ord(c) ==
  LET i == CHOOSE j \in 1..Len(Ascii) : Ascii[j] = c
  IN  IF i <= 64 THEN 31 + i ELSE 32 + i

\* The string (sequence of code points) spelled by a tuple of characters.
Str(cs) == [i \in 1..Len(cs) |-> Ord(cs[i])] \o <<>>

\* The characters the codecs look for.
c_A == Ord("A")
c_Z == Ord("Z")
c_F == Ord("F")
c_a == Ord("a")
c_z == Ord("z")
c_f == Ord("f")
c_0 == Ord("0")
c_9 == Ord("9")
PERCENT == Ord("%")
PLUS == Ord("+")
SPACE == Ord(" ")
UNDERSCORE == Ord("_")
DOT == Ord(".")
HYPHEN == Ord("-")
TILDE == Ord("~")
AMP == Ord("&")
EQUALS == Ord("=")
QUESTION == Ord("?")

\* TLC evaluates a definition of a LET, and an argument of an operator,
\* where it is used, and may do so every time it is used.  A variable bound
\* over a one-element set holds a value: The({ e(x) : x \in {v} }) is e(v)
\* with v evaluated once.
The(S) == CHOOSE r \in S : TRUE

\* The sequence a function on 1..n is, element by element.
AsSeq(f) == f \o <<>>

Min(S) == CHOOSE x \in S : \A y \in S : x <= y

\* The elements of a finite set of integers in increasing order.
Sorted(S) ==
  AsSeq([k \in 1..Cardinality(S) |->
           CHOOSE p \in S : Cardinality({q \in S : q < p}) = k - 1])

UpperCase == c_A..c_Z
LowerCase == c_a..c_z
Digits == c_0..c_9
HexDigits == Digits \cup (c_A..c_F) \cup (c_a..c_f)
HexVal(c) == IF c \in Digits THEN c - c_0
             ELSE IF c \in UpperCase THEN c - c_A + 10
             ELSE c - c_a + 10
\* "%02X": upper-case hexadecimal digits, as urllib.parse.quote writes them.
HexDigit(n) == IF n < 10 THEN c_0 + n ELSE c_A + (n - 10)

\* str < str in Python: by code point at the first difference, a proper
\* prefix first.
StrLess(a, b) ==
  \E n \in {IF Len(a) < Len(b) THEN Len(a) ELSE Len(b)} :
    \E diff \in {{i \in 1..n : a[i] # b[i]}} :
      IF diff = {} THEN Len(a) < Len(b)
      ELSE \E m \in {Min(diff)} : a[m] < b[m]

IsPrefix(p, s) == Len(p) <= Len(s) /\ SubSeq(s, 1, Len(p)) = p

\* str.split(sep) for a one-character separator.
Split(s, sep) ==
  The({ AsSeq([k \in 1..(Len(cut) - 1) |->
                 SubSeq(s, cut[k] + 1, cut[k + 1] - 1)])
        : cut \in {Sorted({i \in 1..Len(s) : s[i] = sep}
                            \cup {0, Len(s) + 1})} })

\* Concatenation of f[lo], ..., f[hi], halving the range.
RECURSIVE Flatten(_, _, _)
Flatten(f, lo, hi) ==
  IF lo > hi THEN <<>>
  ELSE IF lo = hi THEN f[lo]
  ELSE The({ Flatten(f, lo, mid) \o Flatten(f, mid + 1, hi)
             : mid \in {(lo + hi) \div 2} })

\* sep.join(parts)
Join(parts, sep) ==
  Flatten([i \in 1..Len(parts) |->
             IF i = 1 THEN parts[i] ELSE <<sep>> \o parts[i]], 1, Len(parts))

(***************************************************************************)
(* UTF-8 and percent escapes (urllib.parse.quote / unquote).               *)
(***************************************************************************)
\* str.encode("utf8") of one code point.
Utf8Bytes(cp) ==
  IF cp < 128 THEN <<cp>>
  ELSE IF cp < 2048 THEN <<192 + (cp \div 64), 128 + (cp % 64)>>
  ELSE IF cp < 65536
  THEN <<224 + (cp \div 4096), 128 + ((cp \div 64) % 64), 128 + (cp % 64)>>
  ELSE <<240 + (cp \div 262144), 128 + ((cp \div 4096) % 64),
         128 + ((cp \div 64) % 64), 128 + (cp % 64)>>

IsCont(b) == b >= 128 /\ b <= 191

\* The code point read from the raw bytes b0 b1 b2 b3 and the number of
\* bytes it takes (0 stands for "no raw byte here"): a well formed sequence
\* of two to four bytes is its code point, a maximal ill formed prefix is
\* U+FFFD (65533).
Utf8Read(b0, b1, b2, b3) ==
  IF b0 >= 194 /\ b0 <= 223
  THEN IF IsCont(b1) THEN <<(b0 - 192) * 64 + (b1 - 128), 2>>
       ELSE <<65533, 1>>
  ELSE IF b0 >= 224 /\ b0 <= 239
  THEN IF b1 >= (IF b0 = 224 THEN 160 ELSE 128)
          /\ b1 <= (IF b0 = 237 THEN 159 ELSE 191)
       THEN IF IsCont(b2)
            THEN <<(b0 - 224) * 4096 + (b1 - 128) * 64 + (b2 - 128), 3>>
            ELSE <<65533, 2>>
       ELSE <<65533, 1>>
  ELSE IF b0 >= 240 /\ b0 <= 244
  THEN IF b1 >= (IF b0 = 240 THEN 144 ELSE 128)
          /\ b1 <= (IF b0 = 244 THEN 143 ELSE 191)
       THEN IF IsCont(b2)
            THEN IF IsCont(b3)
                 THEN <<(b0 - 240) * 262144 + (b1 - 128) * 4096
                          + (b2 - 128) * 64 + (b3 - 128), 4>>
                 ELSE <<65533, 3>>
            ELSE <<65533, 2>>
       ELSE <<65533, 1>>
  ELSE <<65533, 1>>

\* The raw byte of s at j, 0 if there is none.
RawAt(s, j) == IF j <= Len(s) /\ s[j] < 0 THEN 0 - s[j] ELSE 0

\* bytes.decode("utf-8", "replace") from index i on: the items of s are
\* characters (code points, >= 0) or raw bytes >= 128 that came out of
\* percent escapes, written as -byte.
RECURSIVE Utf8Decode(_, _)
Utf8Decode(s, i) ==
  The({ IF raws = {} THEN SubSeq(s, i, Len(s))
        ELSE The({ The({ SubSeq(s, i, r - 1) \o <<read[1]>>
                           \o Utf8Decode(s, r + read[2])
                         : read \in {Utf8Read(RawAt(s, r), RawAt(s, r + 1),
                                              RawAt(s, r + 2),
                                              RawAt(s, r + 3))} })
                   : r \in {Min(raws)} })
        : raws \in {{j \in i..Len(s) : s[j] < 0}} })

\* The escapes of s resolved: "%XY" with two hexadecimal digits of either
\* case is the byte 16*X+Y (a byte >= 128 is left raw, as -byte, for
\* Utf8Decode); any other "%" stands for itself.  A hexadecimal digit is
\* never "%", so escapes do not overlap.
IsEscapeAt(s, i) ==
  /\ i >= 1
  /\ i + 2 <= Len(s)
  /\ s[i] = PERCENT
  /\ s[i + 1] \in HexDigits
  /\ s[i + 2] \in HexDigits
UnquoteRaw(s) ==
  Flatten([i \in 1..Len(s) |->
             IF IsEscapeAt(s, i)
             THEN The({ <<IF b < 128 THEN b ELSE 0 - b>>
                        : b \in {16 * HexVal(s[i + 1]) + HexVal(s[i + 2])} })
             ELSE IF IsEscapeAt(s, i - 1) \/ IsEscapeAt(s, i - 2) THEN <<>>
             ELSE <<s[i]>>],
          1, Len(s))

\* urllib.parse.unquote(string, encoding="utf-8", errors="replace"), which
\* begins "if '%' not in string: return string".
unquote(string) ==
  The({ IF \A i \in 1..Len(s) : s[i] # PERCENT THEN s
        ELSE The({ Utf8Decode(raw, 1) : raw \in {UnquoteRaw(s)} })
        : s \in {string} })

\* urllib.parse.unquote_plus, as parse_qsl applies it: "+" is a space.
unquote_plus(string) ==
  The({ unquote(AsSeq([i \in 1..Len(s) |->
                         IF s[i] = PLUS THEN SPACE ELSE s[i]]))
        : s \in {string} })

\* _ALWAYS_SAFE, the characters quote never escapes: A-Z a-z 0-9 _ . - ~
AlwaysSafe ==
  UpperCase \cup LowerCase \cup Digits \cup {UNDERSCORE, DOT, HYPHEN, TILDE}

QuoteByte(b, plus) ==
  IF b \in AlwaysSafe THEN <<b>>
  ELSE IF plus /\ b = SPACE THEN <<PLUS>>
  ELSE <<PERCENT, HexDigit(b \div 16), HexDigit(b % 16)>>

\* quote_from_bytes(string.encode("utf8")), which begins "if not
\* bs.rstrip(_ALWAYS_SAFE_BYTES + safe): return bs.decode()".
Quote(string, plus) ==
  The({ IF \A i \in 1..Len(s) : s[i] \in AlwaysSafe THEN s
        ELSE Flatten([i \in 1..Len(s) |->
                        IF s[i] < 128 THEN QuoteByte(s[i], plus)
                        ELSE The({ Flatten([j \in 1..Len(bytes) |->
                                              QuoteByte(bytes[j], plus)],
                                           1, Len(bytes))
                                   : bytes \in {Utf8Bytes(s[i])} })],
                     1, Len(s))
        : s \in {string} })

\* urllib.parse.quote_plus(s.encode("utf8")): what urlencode applies to every
\* key and value.
quote_plus(s) == Quote(s, TRUE)

\* oauthlib.oauth1.rfc5849.utils.escape(s) = quote(s, safe="~"): RFC 5849
\* section 3.6, a space is %20.
escape(s) == Quote(s, FALSE)

(***************************************************************************)
(* The texts of the two source files.                                      *)
(***************************************************************************)
\* tool_provider.py, the key the provider deletes and compares
oauth_signature == Str(<<"o","a","u","t","h","_","s","i","g","n","a","t","u","r","e">>)
\* oauthlib: the prefix of the protocol parameters
oauth_prefix == Str(<<"o","a","u","t","h","_">>)
oauth_nonce == Str(<<"o","a","u","t","h","_","n","o","n","c","e">>)
oauth_timestamp == Str(<<"o","a","u","t","h","_","t","i","m","e","s","t","a","m","p">>)
oauth_version == Str(<<"o","a","u","t","h","_","v","e","r","s","i","o","n">>)
oauth_signature_method == Str(<<"o","a","u","t","h","_","s","i","g","n","a","t","u","r","e","_","m","e","t","h","o","d">>)
oauth_consumer_key == Str(<<"o","a","u","t","h","_","c","o","n","s","u","m","e","r","_","k","e","y">>)
version_1_0 == Str(<<"1",".","0">>)
HMAC_SHA1 == Str(<<"H","M","A","C","-","S","H","A","1">>)
\* tool_consumer.py, the payload of generate_launch_request_payload
k_lti_message_type == Str(<<"l","t","i","_","m","e","s","s","a","g","e","_","t","y","p","e">>)
k_lti_version == Str(<<"l","t","i","_","v","e","r","s","i","o","n">>)
k_resource_link_id == Str(<<"r","e","s","o","u","r","c","e","_","l","i","n","k","_","i","d">>)
lti_message_type == Str(<<"b","a","s","i","c","-","l","t","i","-","l","a","u","n","c","h","-","r","e","q","u","e","s","t">>)
lti_version == Str(<<"L","T","I","-","1","p","0">>)
\* str(1): urlencode writes the integer 1 of the payload as "1"
resource_link_id == Str(<<"1">>)
POST == Str(<<"P","O","S","T">>)
\* tool_provider.py: the key every OAuth1 client of the provider is built with
CONSUMER_KEY == Str(<<"t","e","s","t","_","c","o","n","s","u","m","e","r">>)
\* The 64 characters of base64 in the order of their values.
B64Alphabet == Str(<<"A","B","C","D","E","F","G","H","I","J","K","L","M","N","O","P","Q","R","S","T","U","V","W","X","Y","Z","a","b","c","d","e","f","g","h","i","j","k","l","m","n","o","p","q","r","s","t","u","v","w","x","y","z","0","1","2","3","4","5","6","7","8","9","+","/">>)

(***************************************************************************)
(* Python values.  A dict is the sequence of its entries in insertion      *)
(* order, [k |-> key, v |-> value]; a value is a str, [list |-> FALSE,     *)
(* vals |-> <<s>>], or a list of str, [list |-> TRUE, vals |-> <<...>>].   *)
(* A list of (key, value) tuples is a sequence of pairs <<k, v>>.          *)
(***************************************************************************)
PyStr(s) == [list |-> FALSE, vals |-> <<s>>]
PyList(ss) == [list |-> TRUE, vals |-> ss]

DictKeys(d) == {d[i].k : i \in 1..Len(d)}
DictHas(d, key) == \E i \in 1..Len(d) : d[i].k = key
DictGet(d, key) == d[CHOOSE i \in 1..Len(d) : d[i].k = key].v
\* del d[key]
DictDel(d, key) == SelectSeq(d, LAMBDA e : e.k # key)
\* d[key] = value: an existing key keeps its place, a new key goes last.
DictSet(d, key, value) ==
  IF DictHas(d, key)
  THEN AsSeq([i \in 1..Len(d) |->
                IF d[i].k = key THEN [k |-> key, v |-> value] ELSE d[i]])
  ELSE Append(d, [k |-> key, v |-> value])
\* d |= e
RECURSIVE DictUpdate(_, _)
DictUpdate(d, e) ==
  IF e = <<>> THEN d
  ELSE The({ DictUpdate(set, Tail(e))
             : set \in {DictSet(d, Head(e).k, Head(e).v)} })

(***************************************************************************)
(* urllib.parse                                                            *)
(***************************************************************************)
\* One field name_value of parse_qsl: split at its first "=", an empty field
\* skipped, a field without "=" kept with an empty value only if blank
\* values are kept, a field with an empty value likewise.
parse_field(name_value, keep_blank_values) ==
  The({ IF nv = <<>> THEN <<>>
        ELSE IF eqs = {} /\ ~keep_blank_values THEN <<>>
        ELSE The({ IF p < Len(nv) \/ keep_blank_values
                   THEN << <<unquote_plus(SubSeq(nv, 1, p - 1)),
                             unquote_plus(SubSeq(nv, p + 1, Len(nv)))>> >>
                   ELSE <<>>
                   : p \in {IF eqs = {} THEN Len(nv) + 1 ELSE Min(eqs)} })
        : nv \in {name_value},
          eqs \in {{j \in 1..Len(name_value) : name_value[j] = EQUALS}} })

\* urllib.parse.parse_qsl(qs, keep_blank_values): the fields between "&".
parse_qsl(qs, keep_blank_values) ==
  The({ Flatten([i \in 1..Len(fields) |->
                   parse_field(fields[i], keep_blank_values)],
                1, Len(fields))
        : fields \in {Split(qs, AMP)} })

\* urllib.parse.parse_qs: the values of every name, in order, under the name
\* at the place of its first occurrence.
group(pairs) ==
  The({ AsSeq([n \in 1..Len(first) |->
                 [k |-> pairs[first[n]][1],
                  vals |-> Flatten([j \in 1..Len(pairs) |->
                                      IF pairs[j][1] = pairs[first[n]][1]
                                      THEN <<pairs[j][2]>> ELSE <<>>],
                                   1, Len(pairs))]])
        : first \in {Sorted({i \in 1..Len(pairs) :
                               \A j \in 1..(i - 1) :
                                  pairs[j][1] # pairs[i][1]})} })
urllib_parse_qs(qs, keep_blank_values) ==
  The({ group(pairs) : pairs \in {parse_qsl(qs, keep_blank_values)} })

\* parse_qs as it would be without keep_blank_values handed on to urllib:
\* the variant C5_RoundTrip has to tell from parse_qs.
parse_qs_without_blank_values(qs, keep_blank_values) ==
  The({ AsSeq([i \in 1..Len(params) |->
                 [k |-> params[i].k,
                  v |-> IF Len(params[i].vals) > 1
                        THEN PyList(params[i].vals)
                        ELSE PyStr(params[i].vals[1])]])
        : params \in {urllib_parse_qs(qs, FALSE)} })

\* LTIToolConsumer.parse_qs and ToolProviderHandler.parse_qs (the same
\* code): dict((k, v if len(v) > 1 else v[0]) for k, v in params)
parse_qs(qs, keep_blank_values) ==
  The({ AsSeq([i \in 1..Len(params) |->
                 [k |-> params[i].k,
                  v |-> IF Len(params[i].vals) > 1
                        THEN PyList(params[i].vals)
                        ELSE PyStr(params[i].vals[1])]])
        : params \in {urllib_parse_qs(qs, keep_blank_values)} })

\* urllib.parse.urlencode of a list of (key, value) tuples
urlencode(query) ==
  The({ Join(AsSeq([i \in 1..Len(pairs) |->
                      quote_plus(pairs[i][1]) \o <<EQUALS>>
                        \o quote_plus(pairs[i][2])]),
             AMP)
        : pairs \in {query} })

(***************************************************************************)
(* requests: Request(method, url, data=data).prepare()                     *)
(***************************************************************************)
\* RequestEncodingMixin._encode_params: a str value is one (k, v) tuple, a
\* list value one tuple per item.
encode_params(data) ==
  The({ urlencode(Flatten([i \in 1..Len(d) |->
                             AsSeq([j \in 1..Len(d[i].v.vals) |->
                                      <<d[i].k, d[i].v.vals[j]>>])],
                          1, Len(d)))
        : d \in {data} })

\* PreparedRequest.prepare_body: "if data:", an empty dict leaves body None.
PreparedRequest(method, url, data) ==
  The({ [method |-> method,
         url |-> url,
         has_body |-> d # <<>>,
         body |-> IF d # <<>> THEN encode_params(d) ELSE <<>>]
        : d \in {data} })

(***************************************************************************)
(* oauthlib.oauth1 (RFC 5849), as OAuth1(key, secret,                      *)
(* signature_type=SIGNATURE_TYPE_BODY) drives it.                          *)
(***************************************************************************)
\* oauthlib.common.urldecode: parse_qsl(query, keep_blank_values=True).  Its
\* ValueError for a character outside the form alphabet cannot be raised by
\* a body that urlencode wrote.
urldecode(query) == parse_qsl(query, TRUE)

IsOAuthParam(p) == IsPrefix(oauth_prefix, p[1])

\* parameters._append_params: merged.sort(key=startswith("oauth_")), a stable
\* sort that moves the protocol parameters behind the others.
append_params(oauth_params, params) ==
  The({ SelectSeq(merged, LAMBDA p : ~IsOAuthParam(p))
          \o SelectSeq(merged, LAMBDA p : IsOAuthParam(p))
        : merged \in {params \o oauth_params} })

\* The index of the first "?" of the URI, 0 if it has none.
QueryAt(uri) ==
  The({ IF qs = {} THEN 0 ELSE Min(qs)
        : qs \in {{i \in 1..Len(uri) : uri[i] = QUESTION}} })

\* urlparse(uri).query: what follows the first "?".
uri_query(uri) ==
  The({ IF q = 0 THEN <<>> ELSE SubSeq(uri, q + 1, Len(uri))
        : q \in {QueryAt(uri)} })

\* signature.base_string_uri: the URI without its query.  The URLs of the
\* model have a lower-case scheme and host, an explicit non-default port
\* and a path, which the other steps of base_string_uri leave as they are.
base_string_uri(uri) ==
  The({ IF q = 0 THEN uri ELSE SubSeq(uri, 1, q - 1)
        : q \in {QueryAt(uri)} })

\* signature.collect_parameters: the parameters of the query, then those of
\* the body; the value of every oauth_ parameter unescaped once more; the
\* parameter oauth_signature left out.
collect_parameters(uri_query_, body) ==
  The({ SelectSeq(AsSeq([i \in 1..Len(params) |->
                           IF IsOAuthParam(params[i])
                           THEN <<params[i][1], unquote(params[i][2])>>
                           ELSE params[i]]),
                  LAMBDA p : p[1] # oauth_signature)
        : params \in {urldecode(uri_query_) \o body} })

\* (k1, v1) < (k2, v2) for tuples of str
PairLess(p, q) == StrLess(p[1], q[1]) \/ (p[1] = q[1] /\ StrLess(p[2], q[2]))

\* The tuples left in the order they came in: the variant C7_OrderInvariant
\* has to tell from SortPairs.
SortPairs_left_out(key_values) == key_values

\* list.sort() of (key, value) tuples: every tuple at the place that the
\* number of tuples before it gives (equal tuples in their order).
SortPairs(key_values) ==
  The({ The({ AsSeq([n \in 1..Len(pairs) |->
                       pairs[CHOOSE i \in 1..Len(pairs) : place[i] = n]])
              : place \in {AsSeq([i \in 1..Len(pairs) |->
                             1 + Cardinality(
                               {j \in 1..Len(pairs) :
                                  \/ PairLess(pairs[j], pairs[i])
                                  \/ pairs[j] = pairs[i] /\ j < i})])} })
        : pairs \in {key_values} })

\* signature.normalize_parameters: escape every key and value, sort the
\* tuples, join "k=v" with "&".
normalize_parameters(params) ==
  The({ The({ Join(AsSeq([i \in 1..Len(sorted) |->
                            sorted[i][1] \o <<EQUALS>> \o sorted[i][2]]),
                   AMP)
              : sorted \in {SortPairs(
                              AsSeq([i \in 1..Len(ps) |->
                                       <<escape(ps[i][1]),
                                         escape(ps[i][2])>>]))} })
        : ps \in {params} })

\* signature.signature_base_string
signature_base_string(http_method, base_str_uri, normalized_encoded_request_parameters) ==
  escape(http_method) \o <<AMP>> \o escape(base_str_uri)
    \o <<AMP>> \o escape(normalized_encoded_request_parameters)

\* A key that leaves the client secret out: the variant
\* C3_WrongSecretRejected has to tell from hmac_key.
hmac_key_without_secret(client_secret) == escape(<<>>) \o <<AMP>> \o escape(<<>>)

\* signature._sign_hmac: the key is escape(client_secret) & "&" &
\* escape(resource_owner_secret), and the client has no resource owner
\* secret.
hmac_key(client_secret) == escape(client_secret) \o <<AMP>> \o escape(<<>>)

\* Client.get_oauth_signature(request): the point (key, text) whose
\* HMAC-SHA1 digest is the signature.  _render(request) puts the protocol
\* parameters behind the decoded body.
get_oauth_signature(client_secret, uri, http_method, decoded_body, oauth_params) ==
  The({ <<hmac_key(client_secret),
          signature_base_string(
            http_method, base_string_uri(uri),
            normalize_parameters(collect_parameters(uri_query(uri), body)))>>
        : body \in {append_params(oauth_params, decoded_body)} })

\* HMAC-SHA1 on the graph table: the index of the point, the next free index
\* for a point not evaluated before.
HmacIndex(table, point) ==
  IF \E i \in 1..Len(table) : table[i] = point
  THEN CHOOSE i \in 1..Len(table) : table[i] = point
  ELSE Len(table) + 1
HmacTable(table, point) ==
  IF \E i \in 1..Len(table) : table[i] = point THEN table
  ELSE Append(table, point)

\* binascii.b2a_base64(digest)[:-1]: the base64 text of the 20 bytes of the
\* digest, which ends in one "=" of padding.  The 27 characters before it are
\* modelled by the one that numbers the digest.
b2a_base64(index) == <<B64Alphabet[index], EQUALS>>

(***************************************************************************)
(* tool_consumer.py                                                        *)
(***************************************************************************)
\* extra_params: None, or a dict of str to str.
None == [present |-> FALSE, items |-> <<>>]
Dict(items) == [present |-> TRUE, items |-> items]
Item(key, value) == [k |-> key, v |-> PyStr(value)]

\* The payload of generate_launch_request_payload before extra_params.
payload ==
  <<Item(k_lti_message_type, lti_message_type),
    Item(k_lti_version, lti_version),
    Item(k_resource_link_id, resource_link_id)>>

\* The merge the other way round, extra_params | payload, in which a default
\* wins over its override: the variant C6_PayloadMerged has to tell from
\* generate_launch_request_payload.
generate_launch_request_payload_defaults_win(launch_url, extra_params) ==
  PreparedRequest(POST, launch_url,
                  IF extra_params.present /\ extra_params.items # <<>>
                  THEN DictUpdate(extra_params.items, payload)
                  ELSE payload)

\* LTIToolConsumer.generate_launch_request_payload: "if extra_params:
\* payload |= extra_params", then Request("POST", launch_url,
\* data=payload).prepare()
generate_launch_request_payload(launch_url, extra_params) ==
  PreparedRequest(POST, launch_url,
                  IF extra_params.present /\ extra_params.items # <<>>
                  THEN DictUpdate(payload, extra_params.items)
                  ELSE payload)

\* Client.get_oauth_params, with the nonce and the timestamp it drew
get_oauth_params(client_key, nonce, timestamp) ==
  << <<oauth_nonce, nonce>>,
     <<oauth_timestamp, timestamp>>,
     <<oauth_version, version_1_0>>,
     <<oauth_signature_method, HMAC_SHA1>>,
     <<oauth_consumer_key, client_key>> >>

\* LTIToolConsumer.sign_request up to the digest: the point that
\* OAuth1.__call__ -> Client.sign has HMAC-SHA1 evaluated at.
sign_request_point(request_, consumer_key, consumer_secret, nonce, timestamp) ==
  get_oauth_signature(consumer_secret, request_.url, request_.method,
                      urldecode(request_.body),
                      get_oauth_params(consumer_key, nonce, timestamp))

\* LTIToolConsumer.sign_request: the request with the body Client.sign
\* renders, urlencode of the decoded body, the protocol parameters and last
\* the signature.
sign_request(request_, consumer_key, nonce, timestamp, signature) ==
  [request_ EXCEPT
     !.has_body = TRUE,
     !.body = urlencode(append_params(
                Append(get_oauth_params(consumer_key, nonce, timestamp),
                       <<oauth_signature, signature>>),
                urldecode(request_.body)))]

(***************************************************************************)
(* tool_provider.py                                                        *)
(***************************************************************************)
ToolHtml == "<div><h1>take this awesome tool</h1></div>"
InvalidSignature == "{\"reason\": \"invalid_signature\"}"

\* What data["oauth_signature"] gives when the handler did not get to it.
Missing == [list |-> FALSE, vals |-> <<>>]

\* What tornado answers when the handler raises: 500 and nothing the handler
\* wrote.  signature is the value the handler retrieved, recomputed tells
\* whether it got to "if signature == new_signature", new_signature and
\* base_string are the signature it computed and the text it signed.
Unhandled(error, signature, table) ==
  [status |-> 500, written |-> "", error |-> error, signature |-> signature,
   recomputed |-> FALSE, new_signature |-> <<>>, base_string |-> <<>>,
   table |-> table]

\* The last step of post: "if signature == new_signature" and the answer.
respond(signature, new_signature, base_string, table) ==
  IF signature = PyStr(new_signature)
  THEN [status |-> 200, written |-> ToolHtml, error |-> "",
        signature |-> signature, recomputed |-> TRUE,
        new_signature |-> new_signature, base_string |-> base_string,
        table |-> table]
  ELSE [status |-> 401, written |-> InvalidSignature, error |-> "",
        signature |-> signature, recomputed |-> TRUE,
        new_signature |-> new_signature, base_string |-> base_string,
        table |-> table]

\* The client the provider signs with: OAuth1(CONSUMER_KEY, CONSUMER_SECRET,
\* signature_type=SIGNATURE_TYPE_BODY).client
ProviderClient(secret) == [client_key |-> CONSUMER_KEY, client_secret |-> secret]

\* post from "data_as_request = ..." on: data is the decoded body without
\* oauth_signature.  oauthlib.common.Request(body=None) has decoded_body
\* None, and Client._render then raises ValueError.
verify(signature, data, full_url, sign, table) ==
  The({ IF ~data_as_request.has_body
        THEN Unhandled("ValueError", signature, table)
        ELSE The({ respond(signature, b2a_base64(HmacIndex(table, point)),
                           point[2], HmacTable(table, point))
                   : point \in {get_oauth_signature(
                                  sign.client_secret, data_as_request.url,
                                  data_as_request.method,
                                  urldecode(data_as_request.body), <<>>)} })
        : data_as_request \in {PreparedRequest(POST, full_url, data)} })

\* ToolProviderHandler.post: the response to a request with this body
\* received on full_url, together with the graph of HMAC-SHA1 after it.
\* data["oauth_signature"] raises KeyError if the body has no such key.
post(request_body, full_url, secret, table) ==
  The({ IF ~DictHas(data, oauth_signature)
        THEN Unhandled("KeyError", Missing, table)
        ELSE verify(DictGet(data, oauth_signature),
                    DictDel(data, oauth_signature),
                    full_url, ProviderClient(secret), table)
        : data \in {parse_qs(request_body, TRUE)} })

(***************************************************************************)
(* The inputs of the model.                                                *)
(***************************************************************************)
\* random.choices(string.ascii_letters, k=10): two of the secrets a provider
\* process may start with; a consumer is configured with either.
SecretA ==
  Str(<<"K","i","z","Q","N","A","c","z","M","Z">>)
SecretB ==
  Str(<<"D","Y","U","Q","j","R","K","k","Q","a">>)
\* consumer_key of tool_consumer.py, and one whose text holds an escape
KeyTest ==
  Str(<<"t","e","s","t">>)
KeyEscape ==
  Str(<<"k","%","2","b">>)
\* The launch URL of the provider (port 13000, route /launch), without and
\* with a query as in the launch URL of tool_consumer.py (tool.php?id=7).
UrlLaunch ==
  Str(<<"h","t","t","p",":","/","/","l","o","c","a","l","h","o","s","t",":","1","3","0","0","0","/","l","a","u","n","c","h">>)
UrlLaunchQuery ==
  Str(<<"h","t","t","p",":","/","/","l","o","c","a","l","h","o","s","t",":","1","3","0","0","0","/","l","a","u","n","c","h","?","i","d","=","7">>)
\* What generate_nonce and generate_timestamp may draw.
Nonce1 ==
  Str(<<"3","1">>)
Nonce2 ==
  Str(<<"7","5">>)
Timestamp1 ==
  Str(<<"1","7","0","0","0","0","0","0","0","0">>)
\* Keys and values of caller-supplied extra parameters.
custom_a ==
  Str(<<"c","u","s","t","o","m","_","a">>)
custom_b ==
  Str(<<"c","u","s","t","o","m","_","b">>)
LTI_2p0 ==
  Str(<<"L","T","I","-","2","p","0">>)
ValueX ==
  Str(<<"x">>)
ValueSpecial ==
  Str(<<"a"," ","b","+","c","&","d","=","e","%">>)
Nonce9 ==
  Str(<<"9">>)
\* Bodies any HTTP client may post to /launch.
BodyNoSignature ==
  Str(<<"l","t","i","_","v","e","r","s","i","o","n","=","L","T","I","-","1","p","0","&","r","e","s","o","u","r","c","e","_","l","i","n","k","_","i","d","=","1">>)
BodyOnlySignature ==
  Str(<<"o","a","u","t","h","_","s","i","g","n","a","t","u","r","e","=","9","%","3","D">>)
BodyTwoSignatures ==
  Str(<<"o","a","u","t","h","_","s","i","g","n","a","t","u","r","e","=","9","%","3","D","&","l","t","i","_","v","e","r","s","i","o","n","=","L","T","I","-","1","p","0","&","o","a","u","t","h","_","s","i","g","n","a","t","u","r","e","=","8","%","3","D">>)
BodyForged ==
  Str(<<"l","t","i","_","v","e","r","s","i","o","n","=","L","T","I","-","1","p","0","&","o","a","u","t","h","_","c","o","n","s","u","m","e","r","_","k","e","y","=","t","e","s","t","&","o","a","u","t","h","_","s","i","g","n","a","t","u","r","e","=","9","%","3","D">>)
BodyBlankSignature ==
  Str(<<"l","t","i","_","v","e","r","s","i","o","n","=","L","T","I","-","1","p","0","&","o","a","u","t","h","_","s","i","g","n","a","t","u","r","e">>)

\* A key and values of a parameter set that need escaping: a space in the
\* key, the letter e with an acute accent (two bytes of UTF-8), the text of
\* an escape.
KeySpace ==
  Str(<<"a"," ","b">>)
ValueAccent == <<233>>
ValueEscape ==
  Str(<<"%","4","1">>)

Secrets == {SecretA, SecretB}
Keys == {KeyTest, KeyEscape}
Urls == {UrlLaunch, UrlLaunchQuery}
Nonces == {Nonce1, Nonce2}
Timestamps == {Timestamp1}

\* extra_lti_params: absent, empty, a blank value, a default overridden, the
\* key of the signature itself, characters that need escaping, two keys,
\* the key of a protocol parameter.
Extras ==
  { None,
    Dict(<<>>),
    Dict(<<Item(custom_a, <<>>)>>),
    Dict(<<Item(k_lti_version, LTI_2p0)>>),
    Dict(<<Item(oauth_signature, ValueX)>>),
    Dict(<<Item(custom_b, ValueSpecial)>>),
    Dict(<<Item(k_resource_link_id, <<>>), Item(custom_a, ValueX)>>),
    Dict(<<Item(oauth_nonce, Nonce9)>>) }

ForeignBodies ==
  { <<>>, BodyNoSignature, BodyOnlySignature, BodyTwoSignatures, BodyForged,
    BodyBlankSignature }

\* The number of requests one behaviour of Spec sends to the provider.
MaxRequests == 1
\* The number of requests one behaviour of SpecReplay sends to the provider.
MaxPosts == 3
\* The number of values of one key of a parameter set of SpecCodec.
MaxValues == 2

(***************************************************************************)
(* The state.                                                              *)
(***************************************************************************)
VARIABLES
  CONSUMER_SECRET,  \* tool_provider.py: the secret drawn when the module loads
  consumer,         \* the LTIToolConsumer: consumer_key, consumer_secret,
                    \* launch_url
  request,          \* the request on its way to the provider's /launch
  responses,        \* the responses of the provider, oldest first, each with
                    \* the request it answers
  hmac_table,       \* the graph of HMAC-SHA1 where it has been evaluated
  codec             \* a parameter set, the body requests encodes it to and
                    \* what parse_qs decodes the body to

vars == <<CONSUMER_SECRET, consumer, request, responses, hmac_table, codec>>

NoPrepared == [method |-> <<>>, url |-> <<>>, has_body |-> FALSE, body |-> <<>>]
NoRequest ==
  [state |-> "none", url |-> <<>>, body |-> <<>>, origin |-> "",
   altered |-> "no", from |-> 0, extra |-> None, prepared |-> NoPrepared]
NoCodec == [stage |-> "none", P |-> <<>>, body |-> <<>>, decoded |-> <<>>]

\* LTIToolConsumer.__init__ and the start of the provider process.
InitWith(provider_secrets, consumer_secrets, keys, urls) ==
  /\ CONSUMER_SECRET \in provider_secrets
  /\ consumer \in [consumer_key : keys, consumer_secret : consumer_secrets,
                   launch_url : urls]
  /\ request = NoRequest
  /\ responses = <<>>
  /\ hmac_table = <<>>
  /\ codec = NoCodec

Init == InitWith(Secrets, Secrets, Keys, Urls)

\* The body sign_request(generate_launch_request_payload(extra)) gives, with
\* the request it was made from and the graph of HMAC-SHA1 after it.
SignedLaunch(extra, nonce, timestamp) ==
  The({ The({ [prepared |-> prepared,
               signed |-> sign_request(
                            prepared, consumer.consumer_key, nonce, timestamp,
                            b2a_base64(HmacIndex(hmac_table, point))),
               table |-> HmacTable(hmac_table, point)]
              : point \in {sign_request_point(
                             prepared, consumer.consumer_key,
                             consumer.consumer_secret, nonce, timestamp)} })
        : prepared \in {generate_launch_request_payload(
                          consumer.launch_url, extra)} })

\* A caller sends the request sign_request returns as it is; the provider
\* receives it on full_url.
SignRequest(extra, nonce, timestamp, full_url) ==
  /\ request.state = "none"
  /\ \E l \in {SignedLaunch(extra, nonce, timestamp)} :
       /\ request' = [state |-> "sent", url |-> full_url,
                      body |-> l.signed.body, origin |-> "sign_request",
                      altered |-> "no", from |-> 0, extra |-> extra,
                      prepared |-> l.prepared]
       /\ hmac_table' = l.table
  /\ UNCHANGED <<CONSUMER_SECRET, consumer, responses, codec>>

\* LTIToolConsumer.launch_request: sign, decode the signed body with
\* parse_qs(keep_blank_values=True), and requests.post(launch_url, dict).
LaunchRequest(extra, nonce, timestamp) ==
  /\ request.state = "none"
  /\ \E l \in {SignedLaunch(extra, nonce, timestamp)} :
       \E posted \in {PreparedRequest(POST, consumer.launch_url,
                                      parse_qs(l.signed.body, TRUE))} :
         /\ request' = [state |-> "sent", url |-> posted.url,
                        body |-> posted.body, origin |-> "launch_request",
                        altered |-> "no", from |-> 0, extra |-> extra,
                        prepared |-> l.prepared]
         /\ hmac_table' = l.table
  /\ UNCHANGED <<CONSUMER_SECRET, consumer, responses, codec>>

\* Any HTTP client posts a body of its own to /launch.
ForeignPost(body, full_url) ==
  /\ request.state = "none"
  /\ request' = [NoRequest EXCEPT !.state = "sent", !.url = full_url,
                                  !.body = body, !.origin = "foreign"]
  /\ UNCHANGED <<CONSUMER_SECRET, consumer, responses, hmac_table, codec>>

\* The entry of responses for the request, the secret the handler read and
\* what post answered.
Answer(req, secret, r) ==
  [url |-> req.url, body |-> req.body, origin |-> req.origin,
   altered |-> req.altered, from |-> req.from, extra |-> req.extra,
   prepared |-> req.prepared, secret |-> secret,
   status |-> r.status, written |-> r.written, error |-> r.error,
   signature |-> r.signature, recomputed |-> r.recomputed,
   new_signature |-> r.new_signature, base_string |-> r.base_string]

\* The handler in a process that draws the secret anew after a request: the
\* variant C10_Stateless has to tell from Post.
PostDrawingSecret ==
  /\ request.state = "sent"
  /\ \E r \in {post(request.body, request.url, CONSUMER_SECRET, hmac_table)} :
       /\ responses' = Append(responses, Answer(request, CONSUMER_SECRET, r))
       /\ hmac_table' = r.table
  /\ request' = NoRequest
  /\ CONSUMER_SECRET' \in Secrets
  /\ UNCHANGED <<consumer, codec>>

\* tornado runs ToolProviderHandler.post for the request, from its first
\* line to its last without yielding (the handler has no await), so the
\* requests are handled one after the other in the order they arrive.
Post ==
  /\ request.state = "sent"
  /\ \E r \in {post(request.body, request.url, CONSUMER_SECRET, hmac_table)} :
       /\ responses' = Append(responses, Answer(request, CONSUMER_SECRET, r))
       /\ hmac_table' = r.table
  /\ request' = NoRequest
  /\ UNCHANGED <<CONSUMER_SECRET, consumer, codec>>

\* The request answered as responses[k], sent again as it was.
Replay(k) ==
  /\ request.state = "none"
  /\ k \in 1..Len(responses)
  /\ request' = [state |-> "sent", url |-> responses[k].url,
                 body |-> responses[k].body, origin |-> responses[k].origin,
                 altered |-> "replayed", from |-> k,
                 extra |-> responses[k].extra,
                 prepared |-> responses[k].prepared]
  /\ UNCHANGED <<CONSUMER_SECRET, consumer, responses, hmac_table, codec>>

\* The body with the character at i replaced by c.
AlterChar(body, i, c) == [body EXCEPT ![i] = c]

\* The body with the fields j and j + 1 (between "&") exchanged.
SwapFields(body, j) ==
  The({ Join(AsSeq([n \in 1..Len(fields) |->
                      IF n = j THEN fields[j + 1]
                      ELSE IF n = j + 1 THEN fields[j]
                      ELSE fields[n]]), AMP)
        : fields \in {Split(body, AMP)} })

\* The body the consumer signed, answered as responses[k], arrives once more
\* with one character altered on the way.
Tamper(k, i, c) ==
  /\ request.state = "none"
  /\ k \in 1..Len(responses)
  /\ \A n \in 1..Len(responses) : responses[n].altered = "no"
  /\ responses[k].origin # "foreign"
  /\ i \in 1..Len(responses[k].body)
  /\ responses[k].body[i] # c
  /\ request' = [state |-> "sent", url |-> responses[k].url,
                 body |-> AlterChar(responses[k].body, i, c),
                 origin |-> responses[k].origin,
                 altered |-> "tampered", from |-> k,
                 extra |-> responses[k].extra,
                 prepared |-> responses[k].prepared]
  /\ UNCHANGED <<CONSUMER_SECRET, consumer, responses, hmac_table, codec>>

\* The same, with two neighbouring fields of the body exchanged.
Reorder(k, j) ==
  /\ request.state = "none"
  /\ k \in 1..Len(responses)
  /\ \A n \in 1..Len(responses) : responses[n].altered = "no"
  /\ responses[k].origin # "foreign"
  /\ j \in 1..(Len(Split(responses[k].body, AMP)) - 1)
  /\ request' = [state |-> "sent", url |-> responses[k].url,
                 body |-> SwapFields(responses[k].body, j),
                 origin |-> responses[k].origin,
                 altered |-> "reordered", from |-> k,
                 extra |-> responses[k].extra,
                 prepared |-> responses[k].prepared]
  /\ UNCHANGED <<CONSUMER_SECRET, consumer, responses, hmac_table, codec>>

(***************************************************************************)
(* Spec: one consumer, one provider, every input of the model.             *)
(***************************************************************************)
Sent == Len(responses) + (IF request.state = "sent" THEN 1 ELSE 0)

Next ==
  \/ /\ Sent < MaxRequests
     /\ \E extra \in Extras, timestamp \in Timestamps, full_url \in Urls :
          SignRequest(extra, Nonce1, timestamp, full_url)
  \/ /\ Sent < MaxRequests
     /\ \E extra \in Extras, timestamp \in Timestamps :
          LaunchRequest(extra, Nonce1, timestamp)
  \/ /\ Sent < MaxRequests
     /\ \E body \in ForeignBodies : ForeignPost(body, UrlLaunch)
  \/ Post

Spec == Init /\ [][Next]_vars

(***************************************************************************)
(* SpecNet: a signed body is answered, then arrives again altered.         *)
(***************************************************************************)
NetExtras ==
  { None,
    Dict(<<Item(custom_a, <<>>), Item(custom_b, ValueSpecial)>>),
    Dict(<<Item(oauth_nonce, Nonce9)>>),
    Dict(<<Item(oauth_signature, ValueX)>>) }

\* The characters a body is altered to: the separators, the characters of
\* an escape and of a space, a lower-case hexadecimal digit, a letter.
TamperChars == {AMP, EQUALS, PERCENT, PLUS, SPACE, Ord("d"), Ord("x")}

InitNet == InitWith(Secrets, {SecretA}, {KeyEscape}, {UrlLaunchQuery})

NextNet ==
  \/ /\ Sent = 0
     /\ \E extra \in NetExtras :
          SignRequest(extra, Nonce1, Timestamp1, consumer.launch_url)
  \/ Post
  \/ \E k \in 1..Len(responses) :
       \E j \in 1..Len(Split(responses[k].body, AMP)) : Reorder(k, j)
  \/ \E k \in 1..Len(responses), c \in TamperChars :
       \E i \in 1..Len(responses[k].body) : Tamper(k, i, c)

SpecNet == InitNet /\ [][NextNet]_vars

(***************************************************************************)
(* SpecReplay: requests of every origin and repetitions of them, in any    *)
(* order.                                                                  *)
(***************************************************************************)
ReplayExtras == {None, Dict(<<Item(custom_a, <<>>)>>)}
ReplayBodies == {BodyNoSignature, BodyForged}

InitReplay == InitWith(Secrets, {SecretA}, {KeyTest}, {UrlLaunch})

NextReplay ==
  \/ /\ Sent < MaxPosts
     /\ \E extra \in ReplayExtras, nonce \in Nonces :
          SignRequest(extra, nonce, Timestamp1, consumer.launch_url)
  \/ /\ Sent < MaxPosts
     /\ \E body \in ReplayBodies : ForeignPost(body, UrlLaunch)
  \/ /\ Sent < MaxPosts
     /\ \E k \in 1..Len(responses) : Replay(k)
  \/ Post

SpecReplay == InitReplay /\ [][NextReplay]_vars

(***************************************************************************)
(* SpecCodec: a parameter set encoded by requests and decoded by parse_qs. *)
(***************************************************************************)
CodecKeys == {custom_a, KeySpace}
CodecValues == {<<>>, ValueSpecial, ValueAccent, ValueEscape}

\* The values of one key: a str, or a list of two to MaxValues str.
KeyValues ==
  {PyStr(v) : v \in CodecValues}
    \cup {PyList(vs) : vs \in UNION {[1..n -> CodecValues] : n \in 2..MaxValues}}

\* The dicts of one or two keys.  A payload holds at least the defaults, and
\* for an empty dict requests prepares no body at all.
ParameterSets ==
  {<<[k |-> key, v |-> v1]>> : key \in CodecKeys, v1 \in KeyValues}
    \cup {P \in {<<[k |-> k1, v |-> v1], [k |-> k2, v |-> v2]>> :
                    k1 \in CodecKeys, k2 \in CodecKeys,
                    v1 \in KeyValues, v2 \in KeyValues} :
            P[1].k # P[2].k}

InitCodec ==
  /\ CONSUMER_SECRET = SecretA
  /\ consumer = [consumer_key |-> KeyTest, consumer_secret |-> SecretA,
                 launch_url |-> UrlLaunch]
  /\ request = NoRequest
  /\ responses = <<>>
  /\ hmac_table = <<>>
  /\ codec \in {[NoCodec EXCEPT !.stage = "params", !.P = P] :
                  P \in ParameterSets}

\* Request("POST", launch_url, data=P).prepare().body
Encode ==
  /\ codec.stage = "params"
  /\ \E prepared \in {PreparedRequest(POST, consumer.launch_url, codec.P)} :
       /\ prepared.has_body
       /\ codec' = [codec EXCEPT !.stage = "encoded", !.body = prepared.body]
  /\ UNCHANGED <<CONSUMER_SECRET, consumer, request, responses, hmac_table>>

\* self.parse_qs(body.decode("utf8"), keep_blank_values=True)
Decode ==
  /\ codec.stage = "encoded"
  /\ codec' = [codec EXCEPT !.stage = "decoded",
                            !.decoded = parse_qs(codec.body, TRUE)]
  /\ UNCHANGED <<CONSUMER_SECRET, consumer, request, responses, hmac_table>>

NextCodec == Encode \/ Decode

SpecCodec == InitCodec /\ [][NextCodec]_vars

(***************************************************************************)
(* The claims.                                                             *)
(***************************************************************************)
\* The request came from the consumer's sign_request and arrived as signed.
Signed(r) == r.origin = "sign_request" /\ r.altered = "no"

\* C1: for every consumer key, secret, launch URL and override mapping, the
\* body generate_launch_request_payload and sign_request produce is accepted
\* (status 200, the tool written) by a provider that has the consumer's
\* secret and receives the request on the launch URL.
C1_SignedLaunchAccepted ==
  \A i \in 1..Len(responses) :
    ( /\ Signed(responses[i])
      /\ responses[i].secret = consumer.consumer_secret
      /\ responses[i].url = consumer.launch_url )
    => responses[i].status = 200 /\ responses[i].written = ToolHtml

\* C2: a signed body that arrives with one character altered is rejected
\* with status 401 and the reason invalid_signature; none is accepted.
C2_AlteredRejected ==
  \A i \in 1..Len(responses) :
    responses[i].altered = "tampered"
    => /\ responses[i].status = 401
       /\ responses[i].written = InvalidSignature

\* C3: a body the consumer signed with its secret is rejected (status 401,
\* invalid_signature, the tool not written) by post under every other
\* secret, whatever the provider that answered it had.
C3_WrongSecretRejected ==
  \A i \in 1..Len(responses) :
    responses[i].origin # "foreign"
    => /\ responses[i].secret # consumer.consumer_secret
          => /\ responses[i].status = 401
             /\ responses[i].written = InvalidSignature
       /\ \A s2 \in Secrets \ {consumer.consumer_secret} :
            \E again \in {post(responses[i].body, responses[i].url, s2,
                               hmac_table)} :
               again.status = 401 /\ again.written = InvalidSignature

\* C3, its case: a body accepted by the provider that has the consumer's
\* secret, and the identical body rejected under another secret.
C3_Witness ==
  \E i \in 1..Len(responses) :
    /\ Signed(responses[i])
    /\ responses[i].secret = consumer.consumer_secret
    /\ responses[i].status = 200
    /\ \E s2 \in Secrets \ {consumer.consumer_secret} :
         post(responses[i].body, responses[i].url, s2, hmac_table).status = 401

\* C4: a request whose decoded body has no key oauth_signature is answered
\* with a rejection the handler wrote, never with an unhandled exception.
C4_MissingSignatureRejected ==
  \A i \in 1..Len(responses) :
    ~DictHas(parse_qs(responses[i].body, TRUE), oauth_signature)
    => /\ responses[i].error = ""
       /\ responses[i].status # 500

\* C5: decoding the body requests encodes a parameter set to, with
\* parse_qs(keep_blank_values=True), gives the parameter set again: blank
\* values kept, the values of a key with several values in their order.
C5_RoundTrip ==
  codec.stage = "decoded" => codec.decoded = codec.P

\* C5, its case: a decoded parameter set with a blank value and with a key
\* of two different values.
C5_Witness ==
  /\ codec.stage = "decoded"
  /\ codec.decoded = codec.P
  /\ \E n \in 1..Len(codec.P) : codec.P[n].v = PyStr(<<>>)
  /\ \E n \in 1..Len(codec.P) :
       /\ codec.P[n].v.list
       /\ codec.P[n].v.vals[1] # codec.P[n].v.vals[2]

\* The overrides of extra_params, none if it is None.
Overrides(extra) == IF extra.present THEN extra.items ELSE <<>>

\* C6: the request generate_launch_request_payload prepares is a POST to the
\* launch URL whose body holds every override key with the override's
\* value, every default key not overridden with its default, and no other
\* key.
C6_PayloadMerged ==
  (request.state = "sent" /\ request.origin = "sign_request")
  => /\ request.prepared.method = POST
     /\ request.prepared.url = consumer.launch_url
     /\ \E data \in {parse_qs(request.prepared.body, TRUE)} :
          \E overrides \in {Overrides(request.extra)} :
            /\ \A n \in 1..Len(overrides) :
                 /\ DictHas(data, overrides[n].k)
                 /\ DictGet(data, overrides[n].k) = overrides[n].v
            /\ \A n \in 1..Len(payload) :
                 ~DictHas(overrides, payload[n].k)
                 => /\ DictHas(data, payload[n].k)
                    /\ DictGet(data, payload[n].k) = payload[n].v
            /\ DictKeys(data) = DictKeys(payload) \cup DictKeys(overrides)

\* C6, its case: a request prepared with a default overridden by a blank
\* value and with a new key.
C6_Witness ==
  /\ request.state = "sent"
  /\ request.origin = "sign_request"
  /\ request.extra = Dict(<<Item(k_resource_link_id, <<>>),
                            Item(custom_a, ValueX)>>)
  /\ DictGet(parse_qs(request.prepared.body, TRUE), k_resource_link_id)
       = PyStr(<<>>)

\* C7: a body with the fields of a signed body in another order gets the
\* same recomputed signature over the same base string, and the same answer.
C7_OrderInvariant ==
  \A i \in 1..Len(responses) :
    responses[i].altered = "reordered"
    => \E o \in {responses[responses[i].from]} :
         /\ responses[i].recomputed = o.recomputed
         /\ responses[i].base_string = o.base_string
         /\ responses[i].new_signature = o.new_signature
         /\ responses[i].status = o.status
         /\ responses[i].written = o.written

\* C7, its case: an accepted body, accepted again with two of its
\* parameters exchanged.
C7_Witness ==
  \E i \in 1..Len(responses) :
    /\ responses[i].altered = "reordered"
    /\ responses[i].status = 200
    /\ responses[responses[i].from].status = 200
    /\ parse_qsl(responses[i].body, TRUE)
         # parse_qsl(responses[responses[i].from].body, TRUE)

\* C8: the value the handler retrieves for oauth_signature is one string,
\* never a list.
C8_SignatureIsString ==
  \A i \in 1..Len(responses) :
    responses[i].signature # Missing => ~responses[i].signature.list

\* C9: every request with a key oauth_signature is answered after the
\* signature has been recomputed, either with status 200 and the tool, the
\* two signatures being equal, or with status 401 and invalid_signature,
\* the two being different.
C9_AcceptedOrRejected ==
  \A i \in 1..Len(responses) :
    responses[i].signature # Missing
    => /\ responses[i].recomputed
       /\ \/ /\ responses[i].status = 200
             /\ responses[i].written = ToolHtml
             /\ responses[i].signature = PyStr(responses[i].new_signature)
          \/ /\ responses[i].status = 401
             /\ responses[i].written = InvalidSignature
             /\ responses[i].signature # PyStr(responses[i].new_signature)

\* C10: every request was answered under the secret the process still has,
\* with the answer post gives its body and URL now, and two requests with
\* the same body and URL got the same answer, whatever came between them.
C10_Stateless ==
  /\ \A i \in 1..Len(responses) :
       /\ responses[i].secret = CONSUMER_SECRET
       /\ \E again \in {post(responses[i].body, responses[i].url,
                             CONSUMER_SECRET, hmac_table)} :
            /\ again.status = responses[i].status
            /\ again.written = responses[i].written
            /\ again.error = responses[i].error
  /\ \A i \in 1..Len(responses), j \in 1..Len(responses) :
       ( /\ responses[i].body = responses[j].body
         /\ responses[i].url = responses[j].url )
       => /\ responses[i].status = responses[j].status
          /\ responses[i].written = responses[j].written
          /\ responses[i].error = responses[j].error

\* C10, its case: an accepted body, another request, and the accepted body
\* again, accepted again.
C10_Witness ==
  /\ Len(responses) >= 3
  /\ responses[1].status = 200
  /\ responses[2].body # responses[1].body
  /\ responses[3].altered = "replayed"
  /\ responses[3].from = 1
  /\ responses[3].status = 200

=============================================================================
